---- MODULE Spec2Model ----
(***************************************************************************)
(* Bidirectional path tracing, src/integrators/bdpt.rs: the vertex model,  *)
(* random_walk, the camera and light subpath generators and connect_bdpt.  *)
(*                                                                         *)
(* Float values are exact rationals <<num, den>> in lowest terms (den > 0),*)
(* so rounding and overflow of f32 are outside the model.  Geometry is     *)
(* planar: points, vectors and normals are pairs of integers, taken from a *)
(* rectangle of sides 3 and 4 so that every distance is an integer and     *)
(* sqrt() is exact.  A Spectrum has one channel.  Flag bytes (LightFlags,  *)
(* BxdfType) are sets of flag names: "x & F != 0" is "F \in x".            *)
(***************************************************************************)
EXTENDS Integers, Sequences, FiniteSets, TLC

\* ------------------------------------------------------------------ bounds
\* largest max_depth an entry point is called with
MaxDepth == 3
\* densities returned by the collaborators (camera, light, BSDF) lie in 0..MaxPdf
MaxPdf == 1

\* ------------------------------------------------------------- Float values
Abs(x) == IF x < 0 THEN -x ELSE x

RECURSIVE Gcd(_, _)
Gcd(a, b) == IF b = 0 THEN a ELSE Gcd(b, a % b)

\* the rational n/d in lowest terms with a positive denominator
Rat(n, d) ==
    LET g == Gcd(Abs(n), Abs(d))
        s == IF d < 0 THEN -1 ELSE 1
    IN  <<(s * n) \div g, (s * d) \div g>>

F(n) == <<n, 1>>
Zero == F(0)
One == F(1)
RMul(a, b) == Rat(a[1] * b[1], a[2] * b[2])
RDiv(a, b) == Rat(a[1] * b[2], a[2] * b[1])
RAdd(a, b) == Rat(a[1] * b[2] + b[1] * a[2], a[2] * b[2])
RAbs(a) == <<Abs(a[1]), a[2]>>
ISqrt(n) == CHOOSE k \in 0..n : k * k = n
\* Float::sqrt, on the squares the planar scene produces
RSqrt(a) == <<ISqrt(a[1]), ISqrt(a[2])>>

\* ---------------------------------------------------------------- geometry
\* Point3f::default(), Vector3f::default(), Normal3f::default()
Origin == <<0, 0>>
VSub(a, b) == <<a[1] - b[1], a[2] - b[2]>>
VNeg(a) == <<-a[1], -a[2]>>
LengthSquared(w) == w[1] * w[1] + w[2] * w[2]
\* w * s for a Float s: a vector of Float components
VScale(w, s) == <<RMul(F(w[1]), s), RMul(F(w[2]), s)>>
\* nrm_abs_dot_vec3(n, v), v with Float components
NrmAbsDotVec3(n, v) == RAbs(RAdd(RMul(F(n[1]), v[1]), RMul(F(n[2]), v[2])))
\* vec3_abs_dot_nrm(v, n), both with integer components
Vec3AbsDotNrm(v, n) == F(Abs(v[1] * n[1] + v[2] * n[2]))

\* Spectrum::is_black
IsBlack(s) == s = Zero

\* ------------------------------------------------ EndpointInteraction / Vertex
\* Option<Arc<Light>>: None, or a light known by its flags
NoLight == [some |-> FALSE, flags |-> {}]
SomeLight(flags) == [some |-> TRUE, flags |-> flags]

\* Option<Bsdf>: None, or the BxdfType of each component
NoBsdf == [some |-> FALSE, bxdfs |-> <<>>]
SomeBsdf(bxdfs) == [some |-> TRUE, bxdfs |-> bxdfs]

\* Option<EndpointInteraction>::None and Option<SurfaceInteraction>::None
NoEi == [some |-> FALSE, p |-> Origin, n |-> Origin, camera |-> FALSE, light |-> NoLight]
NoSi == [some |-> FALSE, p |-> Origin, n |-> Origin, ns |-> Origin, wo |-> Origin, bsdf |-> NoBsdf]

\* EndpointInteraction::new
EndpointNew(p) == [some |-> TRUE, p |-> p, n |-> Origin, camera |-> FALSE, light |-> NoLight]
\* EndpointInteraction::new_camera
EndpointNewCamera(r) == [EndpointNew(r.o) EXCEPT !.camera = TRUE]
\* EndpointInteraction::new_light
EndpointNewLight(light, r, nl) == [EndpointNew(r.o) EXCEPT !.light = light, !.n = nl]
\* EndpointInteraction::new_ray
EndpointNewRay(r) == [EndpointNew(r.o) EXCEPT !.n = VNeg(r.d)]

\* Vertex::new
VertexNew(vertex_type, ei, b) ==
    [vertex_type |-> vertex_type, beta |-> b, ei |-> ei, si |-> NoSi,
     delta |-> FALSE, pdf_fwd |-> Zero, pdf_rev |-> Zero]

\* Vertex::create_camera
CreateCamera(r, b) == VertexNew("Camera", EndpointNewCamera(r), b)

\* Vertex::p
P(v) ==
    CASE v.vertex_type = "Medium" -> Origin
      [] v.vertex_type = "Surface" -> IF v.si.some THEN v.si.p ELSE Origin
      [] OTHER -> IF v.ei.some THEN v.ei.p ELSE Origin

\* Vertex::ng
Ng(v) ==
    CASE v.vertex_type = "Medium" -> Origin
      [] v.vertex_type = "Surface" -> IF v.si.some THEN v.si.n ELSE Origin
      [] OTHER -> IF v.ei.some THEN v.ei.n ELSE Origin

\* Vertex::is_on_surface
IsOnSurface(v) == Ng(v) # Origin

\* BSDF component_count(flag_mask): the components whose type lies within the mask
NumComponents(bsdf, flags) ==
    Cardinality({i \in DOMAIN bsdf.bxdfs : bsdf.bxdfs[i] \subseteq flags})

\* is_connectible with a fault: a Light vertex without a light is connectible
IsConnectibleNoLightTrue(v) ==
    CASE v.vertex_type = "Medium" -> TRUE
      [] v.vertex_type = "Light" ->
            IF v.ei.some /\ v.ei.light.some
            THEN "DeltaDirection" \notin v.ei.light.flags
            ELSE TRUE
      [] v.vertex_type = "Camera" -> TRUE
      [] v.vertex_type = "Surface" ->
            IF v.si.some /\ v.si.bsdf.some
            THEN NumComponents(v.si.bsdf,
                     {"BsdfDiffuse", "BsdfGlossy", "BsdfReflection", "BsdfTransmission"}) > 0
            ELSE FALSE

\* Vertex::is_connectible (the `_` arm is unreachable: VertexType has four variants)
IsConnectible(v) ==
    CASE v.vertex_type = "Medium" -> TRUE
      [] v.vertex_type = "Light" ->
            IF v.ei.some
            THEN IF v.ei.light.some
                 THEN "DeltaDirection" \notin v.ei.light.flags
                 ELSE FALSE
            ELSE FALSE
      [] v.vertex_type = "Camera" -> TRUE
      [] v.vertex_type = "Surface" ->
            IF v.si.some
            THEN IF v.si.bsdf.some
                 THEN NumComponents(v.si.bsdf,
                          {"BsdfDiffuse", "BsdfGlossy", "BsdfReflection", "BsdfTransmission"}) > 0
                 ELSE FALSE
            ELSE FALSE

\* Vertex::is_infinite_light
IsInfiniteLight(v) ==
    IF v.vertex_type # "Light" THEN FALSE
    ELSE IF v.ei.some /\ v.ei.light.some
         THEN "Infinite" \in v.ei.light.flags \/ "DeltaDirection" \in v.ei.light.flags
         ELSE FALSE

\* convert_density with a fault: the cosine at next is left out
ConvertDensityNoCos(self, pdf, next) ==
    IF IsInfiniteLight(next) THEN pdf
    ELSE LET w == VSub(P(next), P(self)) IN
         IF LengthSquared(w) = 0 THEN Zero
         ELSE RMul(pdf, RDiv(One, F(LengthSquared(w))))

\* Vertex::convert_density
ConvertDensity(self, pdf, next) ==
    IF IsInfiniteLight(next) THEN pdf
    ELSE LET w == VSub(P(next), P(self)) IN
         IF LengthSquared(w) = 0 THEN Zero
         ELSE LET inv_dist_2 == RDiv(One, F(LengthSquared(w)))
                  pdf2 == IF IsOnSurface(next)
                          THEN RMul(pdf, NrmAbsDotVec3(Ng(next), VScale(w, RSqrt(inv_dist_2))))
                          ELSE pdf
              IN  RMul(pdf2, inv_dist_2)

\* Vertex::create_surface_interaction
CreateSurfaceInteraction(si, b, pdf, prev) ==
    LET v == [vertex_type |-> "Surface", beta |-> b, ei |-> NoEi, si |-> si,
              delta |-> FALSE, pdf_fwd |-> Zero, pdf_rev |-> Zero]
    IN  [v EXCEPT !.pdf_fwd = ConvertDensity(prev, pdf, v)]

\* create_light_interaction with a fault: the escape vertex is tagged Surface
CreateLightInteractionAsSurface(ei, b, pdf) ==
    [VertexNew("Surface", ei, b) EXCEPT !.pdf_fwd = pdf]

\* Vertex::create_light_interaction
CreateLightInteraction(ei, b, pdf) ==
    [VertexNew("Light", ei, b) EXCEPT !.pdf_fwd = pdf]

\* Vertex::create_light (its pdf argument is not stored)
CreateLight(light, r, nl, le, pdf) ==
    VertexNew("Light", EndpointNewLight(light, r, nl), le)

\* correct_shading_normal
CorrectShadingNormal(isect, wo, wi, mode) ==
    IF mode = "Importance"
    THEN LET num == RMul(Vec3AbsDotNrm(wo, isect.ns), Vec3AbsDotNrm(wi, isect.n))
             denom == RMul(Vec3AbsDotNrm(wo, isect.n), Vec3AbsDotNrm(wi, isect.ns))
         IN  IF denom = Zero THEN Zero ELSE RDiv(num, denom)
    ELSE One

\* ------------------------------------------------------------ collaborators
\* what the scene, the camera, the lights, the BSDFs and the sampler may answer
Dirs == {<<1, 0>>, <<0, 1>>}
Densities == {F(k) : k \in 0..MaxPdf}
Lambert == <<{"BsdfReflection", "BsdfDiffuse"}>>
Mirror == <<{"BsdfReflection", "BsdfSpecular"}>>
Surface(p, n, bsdf) ==
    [some |-> TRUE, p |-> p, n |-> n, ns |-> n, wo |-> Origin, bsdf |-> bsdf]
\* the surfaces of the scene, after compute_scattering_functions
Surfaces ==
    { Surface(<<3, 0>>, <<1, 0>>, SomeBsdf(Lambert)),
      Surface(<<0, 4>>, <<0, 1>>, SomeBsdf(Mirror)),
      Surface(<<3, 4>>, <<1, 0>>, NoBsdf) }
\* Scene::intersect: a miss, or a hit of any surface, seen from the ray
Intersect(r) ==
    {NoSi} \cup {[s EXCEPT !.wo = VNeg(r.d)] : s \in Surfaces}
\* Bsdf::sample_f: the weight f, the direction wi, the density and the sampled type
SampleF(bsdf) ==
    [f : {Zero, One}, wi : Dirs, pdf : Densities,
     sampled_type : {bsdf.bxdfs[i] : i \in DOMAIN bsdf.bxdfs}]
\* Interaction::spawn_ray (the origin's error offset is below the model's resolution)
SpawnRay(it, d) == [o |-> it.p, d |-> d]

\* Option<Float>
NoFloat == [some |-> FALSE, v |-> Zero]
SomeFloat(x) == [some |-> TRUE, v |-> x]

\* Arc::get_mut: Some exactly when no other Arc points to the value
ArcGetMut(strong) == strong = 1

\* --------------------------------------------------------------------- state
VARIABLES
    op,            \* the entry point that was called
    pc,            \* "call", "walk", "loop", "post", "done", "panic"
    arg,           \* the arguments of the entry point
    max_depth,     \* random_walk: max_depth
    mode,          \* random_walk: mode
    density_info,  \* random_walk: density_info
    path,          \* random_walk: path (the Vec behind the generators' Arc)
    ray,           \* random_walk: ray
    beta,          \* random_walk: beta
    pdf_fwd,       \* random_walk: pdf_fwd (pdf before the loop)
    pdf_rev,       \* random_walk: pdf_rev
    bounces,       \* random_walk: bounces
    draws,         \* values drawn from the sampler so far
    events,        \* what each step of the walk met, in order
    path0,         \* the subpath as it was when random_walk was called
    ret            \* the value returned

vars == <<op, pc, arg, max_depth, mode, density_info, path, ray, beta, pdf_fwd,
          pdf_rev, bounces, draws, events, path0, ret>>

walk_vars == <<max_depth, mode, density_info, path, ray, beta, pdf_fwd, pdf_rev,
               bounces, events, path0>>

NoRet == [n |-> 0, path |-> <<>>, p |-> Origin, l |-> Zero, b |-> FALSE, f |-> Zero]
NoRay == [o |-> Origin, d |-> Origin]

\* the locals of random_walk before any call
IdleWalk ==
    /\ max_depth = 0
    /\ mode = "Radiance"
    /\ density_info = NoFloat
    /\ path = <<>>
    /\ ray = NoRay
    /\ beta = Zero
    /\ pdf_fwd = Zero
    /\ pdf_rev = Zero
    /\ bounces = 0
    /\ events = <<>>
    /\ path0 = <<>>

\* the seed vertices the generators build
CameraSeed(r) == CreateCamera(r, One)
LightSeed(flags, r) == CreateLight(SomeLight(flags), r, <<1, 0>>, One, One)

\* random_walk called as the generators call it: a one-vertex subpath, the
\* camera's with Radiance, a light's with Importance, density_info for an
\* infinite light only
InitWalk ==
    /\ op = "random_walk"
    /\ pc = "walk"
    /\ arg = [none |-> TRUE]
    /\ max_depth \in 0..MaxDepth
    /\ ray \in [o : {Origin}, d : Dirs]
    /\ \E kind \in {"camera", "area", "infinite"} :
          /\ mode = IF kind = "camera" THEN "Radiance" ELSE "Importance"
          /\ density_info = IF kind = "infinite" THEN SomeFloat(One) ELSE NoFloat
          /\ path = CASE kind = "camera" -> <<CameraSeed(ray)>>
                      [] kind = "area" -> <<LightSeed({"Area"}, ray)>>
                      [] kind = "infinite" -> <<LightSeed({"Infinite"}, ray)>>
    /\ beta = One
    /\ pdf_fwd \in Densities \ {Zero}
    /\ pdf_rev = Zero
    /\ bounces = 0
    /\ draws = 0
    /\ events = <<>>
    /\ path0 = path
    /\ ret = NoRet

\* path[i] of the code (indices from 0) is in bounds
InBounds(p, i) == i < Len(p)
\* path[i] of the code
At(p, i) == p[i + 1]

\* what random_walk's caller gets back: the count itself, or, in a generator,
\* the count plus the seed vertex together with the generator's subpath
Return(n, p) ==
    IF op = "random_walk" THEN [NoRet EXCEPT !.n = n]
    ELSE [NoRet EXCEPT !.n = n + 1, !.path = p, !.p = P(At(p, 0))]

\* random_walk, lines 490-496: the early return, or the locals before the loop
RandomWalk ==
    /\ pc = "walk"
    /\ IF max_depth = 0
       THEN /\ pc' = "done"
            /\ ret' = Return(bounces, path)
       ELSE /\ pc' = "loop"
            /\ ret' = ret
    /\ UNCHANGED <<op, arg, walk_vars, draws>>

\* line 523 with a fault: the walk stops one bounce late
BudgetMetOffByOne(b, depth) == b > depth

\* line 523: the budget is met
BudgetMet(b, depth) == b >= depth

\* line 543: the sampled path is dead
IsAbsorbed(f, pdf) == IsBlack(f) \/ pdf = Zero

\* line 549 with a fault: the glossy bit is tested instead of the specular one
IsSpecularGlossyBit(sampled_type) == "BsdfGlossy" \in sampled_type

\* line 549: the sample came from a specular component
IsSpecular(sampled_type) == "BsdfSpecular" \in sampled_type

\* line 569 with a fault: the reverse density lands in pdf_fwd
BackPatchForward(p, i, x) == [p EXCEPT ![i + 1].pdf_fwd = x]

\* lines 565-569: path[i].pdf_rev = x
BackPatch(p, i, x) == [p EXCEPT ![i + 1].pdf_rev = x]

\* lines 577-590: the ray escapes; a camera walk stores the escape vertex
WalkMiss ==
    /\ pc = "loop"
    /\ NoSi \in Intersect(ray)
    /\ IF mode = "Radiance"
       THEN /\ path' = Append(path,
                          CreateLightInteraction(EndpointNewRay(ray), beta, pdf_fwd))
            /\ bounces' = bounces + 1
       ELSE UNCHANGED <<path, bounces>>
    /\ pc' = "post"
    /\ events' = Append(events, "miss")
    /\ UNCHANGED <<op, arg, max_depth, mode, density_info, ray, beta, pdf_fwd,
                   pdf_rev, draws, path0, ret>>

\* lines 505-521: a hit, and path[bounces] is out of bounds: the index panics
WalkHitIndexPanic ==
    /\ pc = "loop"
    /\ \E isect \in Intersect(ray) \ {NoSi} : ~InBounds(path, bounces)
    /\ pc' = "panic"
    /\ events' = Append(events, "index")
    /\ UNCHANGED <<op, arg, max_depth, mode, density_info, path, ray, beta,
                   pdf_fwd, pdf_rev, bounces, draws, path0, ret>>

\* lines 505-525: a hit that meets the budget; the vertex is built and dropped
WalkHitBudget ==
    /\ pc = "loop"
    /\ \E isect \in Intersect(ray) \ {NoSi} :
          /\ InBounds(path, bounces)
          /\ BudgetMet(bounces + 1, max_depth)
    /\ bounces' = bounces + 1
    /\ pc' = "post"
    /\ events' = Append(events, "budget")
    /\ UNCHANGED <<op, arg, max_depth, mode, density_info, path, ray, beta,
                   pdf_fwd, pdf_rev, draws, path0, ret>>

\* lines 505-545: a hit below the budget whose BSDF sample is dead; the vertex
\* is built and dropped, pdf_fwd holds what sample_f wrote
WalkHitAbsorbed ==
    /\ pc = "loop"
    /\ \E isect \in Intersect(ray) \ {NoSi} :
          /\ InBounds(path, bounces)
          /\ ~BudgetMet(bounces + 1, max_depth)
          /\ isect.bsdf.some
          /\ \E smp \in SampleF(isect.bsdf) :
                /\ IsAbsorbed(smp.f, smp.pdf)
                /\ pdf_fwd' = smp.pdf
    /\ bounces' = bounces + 1
    /\ draws' = draws + 1
    /\ pc' = "post"
    /\ events' = Append(events, "absorbed")
    /\ UNCHANGED <<op, arg, max_depth, mode, density_info, path, ray, beta,
                   pdf_rev, path0, ret>>

\* lines 505-571: a hit below the budget that scatters: beta, the densities and
\* the ray are updated, the predecessor's pdf_rev is patched, the vertex stored
WalkHitScatter ==
    /\ pc = "loop"
    /\ \E isect \in Intersect(ray) \ {NoSi} :
          /\ InBounds(path, bounces)
          /\ ~BudgetMet(bounces + 1, max_depth)
          /\ isect.bsdf.some
          /\ \E smp \in SampleF(isect.bsdf), rev \in Densities :
                /\ ~IsAbsorbed(smp.f, smp.pdf)
                /\ LET vertex == CreateSurfaceInteraction(isect, beta, pdf_fwd,
                                                          At(path, bounces))
                       b1 == bounces + 1
                       beta1 == RMul(beta, RDiv(RMul(smp.f, Vec3AbsDotNrm(smp.wi, isect.ns)),
                                                smp.pdf))
                       spec == IsSpecular(smp.sampled_type)
                       vertex1 == [vertex EXCEPT !.delta = IF spec THEN TRUE ELSE @]
                       pdf_rev1 == IF spec THEN Zero ELSE rev
                       new_pdf_rev == ConvertDensity(vertex1, pdf_rev1, At(path, b1 - 1))
                   IN  /\ bounces' = b1
                       /\ beta' = RMul(beta1,
                                       CorrectShadingNormal(isect, isect.wo, smp.wi, mode))
                       /\ pdf_rev' = pdf_rev1
                       /\ pdf_fwd' = IF spec THEN Zero ELSE smp.pdf
                       /\ ray' = SpawnRay(isect, smp.wi)
                       /\ path' = Append(BackPatch(path, b1 - 1, new_pdf_rev), vertex1)
                       /\ events' = Append(events,
                                           IF "BsdfSpecular" \in smp.sampled_type
                                           THEN "specular" ELSE "scatter")
    /\ draws' = draws + 1
    /\ pc' = "loop"
    /\ UNCHANGED <<op, arg, max_depth, mode, density_info, path0, ret>>

\* lines 505-525 and 572-576: a hit below the budget of a surface without a
\* BSDF: the ray goes on in its direction, after bounces was incremented
WalkHitNoBsdf ==
    /\ pc = "loop"
    /\ \E isect \in Intersect(ray) \ {NoSi} :
          /\ InBounds(path, bounces)
          /\ ~BudgetMet(bounces + 1, max_depth)
          /\ ~isect.bsdf.some
          /\ ray' = SpawnRay(isect, ray.d)
    /\ bounces' = bounces + 1
    /\ pc' = "loop"
    /\ events' = Append(events, "no_bsdf")
    /\ UNCHANGED <<op, arg, max_depth, mode, density_info, path, beta, pdf_fwd,
                   pdf_rev, draws, path0, ret>>

\* lines 592-604: the correction of path[1] for an infinite light, and the return
WalkReturn ==
    /\ pc = "post"
    /\ IF density_info.some /\ bounces > 0
       THEN IF InBounds(path, 1)
            THEN /\ path' = [path EXCEPT ![2].pdf_fwd =
                                IF IsOnSurface(At(path, 1))
                                THEN RMul(density_info.v,
                                          Vec3AbsDotNrm(ray.d, Ng(At(path, 1))))
                                ELSE density_info.v]
                 /\ pc' = "done"
                 /\ ret' = Return(bounces, path')
            ELSE /\ pc' = "panic"
                 /\ UNCHANGED <<path, ret>>
       ELSE /\ pc' = "done"
            /\ ret' = Return(bounces, path)
            /\ path' = path
    /\ UNCHANGED <<op, arg, max_depth, mode, density_info, ray, beta, pdf_fwd,
                   pdf_rev, bounces, draws, events, path0>>

\* ------------------------------------------------------- subpath generators
\* generate_camera_subpath: max_depth, and what the camera answers (the ray's
\* direction, the weight of generate_ray_differential, pdf_dir of pdf_we)
InitCamera ==
    /\ op = "generate_camera_subpath"
    /\ pc = "call"
    /\ arg \in [max_depth : 0..MaxDepth, d : Dirs, we : {Zero, One}, pdf_dir : Densities]
    /\ IdleWalk
    /\ draws = 0
    /\ ret = NoRet

\* generate_camera_subpath, lines 368-401, up to the call of random_walk: the
\* early return, or the seed vertex pushed through Arc::get_mut(&mut path) and
\* then Arc::get_mut(&mut path.clone()).unwrap(), taken while path and its
\* clone both point to the Vec
GenerateCameraSubpath ==
    /\ op = "generate_camera_subpath"
    /\ pc = "call"
    /\ IF arg.max_depth = 0
       THEN /\ pc' = "done"
            /\ ret' = NoRet
            /\ UNCHANGED <<walk_vars, draws>>
       ELSE LET ray0 == [o |-> Origin, d |-> arg.d]
                vertex == CreateCamera(ray0, arg.we)
                strong == 1
            IN  /\ draws' = draws + 2
                /\ ray' = ray0
                /\ beta' = arg.we
                /\ path' = IF ArcGetMut(strong) THEN <<vertex>> ELSE path
                /\ path0' = path'
                /\ IF ArcGetMut(strong) /\ ArcGetMut(strong + 1)
                   THEN /\ pc' = "walk"
                        /\ pdf_fwd' = arg.pdf_dir
                        /\ max_depth' = arg.max_depth - 1
                        /\ mode' = "Radiance"
                        /\ density_info' = NoFloat
                   ELSE /\ pc' = "panic"
                        /\ UNCHANGED <<pdf_fwd, max_depth, mode, density_info>>
                /\ UNCHANGED <<pdf_rev, bounces, events, ret>>
    /\ UNCHANGED <<op, arg>>

\* generate_light_subpath: max_depth, and what the light distribution and the
\* sampled light answer (sample_discrete's probability, the light's flags,
\* sample_le's ray direction, normal, densities and emission)
InitLight ==
    /\ op = "generate_light_subpath"
    /\ pc = "call"
    /\ arg \in [max_depth : 0..MaxDepth, light_pdf : Densities \ {Zero},
                flags : {{"Area"}, {"Infinite"}}, d : Dirs, n_light : {<<1, 0>>},
                pdf_pos : Densities, pdf_dir : Densities, le : {Zero, One}]
    /\ IdleWalk
    /\ draws = 0
    /\ ret = NoRet

\* line 435 with a fault: a black emission is traced
LightAbortNoBlack(pdf_pos, pdf_dir, le) == pdf_pos = Zero \/ pdf_dir = Zero

\* line 435: the sampled light gives nothing to trace
LightAbort(pdf_pos, pdf_dir, le) == pdf_pos = Zero \/ pdf_dir = Zero \/ IsBlack(le)

\* generate_light_subpath, lines 412-476, up to the call of random_walk
GenerateLightSubpath ==
    /\ op = "generate_light_subpath"
    /\ pc = "call"
    /\ IF arg.max_depth = 0
       THEN /\ pc' = "done"
            /\ ret' = NoRet
            /\ UNCHANGED <<walk_vars, draws>>
       ELSE IF LightAbort(arg.pdf_pos, arg.pdf_dir, arg.le)
       THEN /\ pc' = "done"
            /\ ret' = NoRet
            /\ draws' = draws + 3
            /\ ray' = [o |-> Origin, d |-> arg.d]
            /\ UNCHANGED <<max_depth, mode, density_info, path, beta, pdf_fwd,
                           pdf_rev, bounces, events, path0>>
       ELSE LET ray0 == [o |-> Origin, d |-> arg.d]
                vertex == CreateLight(SomeLight(arg.flags), ray0, arg.n_light, arg.le,
                                      RMul(arg.pdf_pos, arg.light_pdf))
                is_infinite_light == IsInfiniteLight(vertex)
                strong == 1
            IN  /\ draws' = draws + 3
                /\ ray' = ray0
                /\ path' = IF ArcGetMut(strong) THEN <<vertex>> ELSE path
                /\ path0' = path'
                /\ IF ArcGetMut(strong)
                   THEN beta' = RDiv(RMul(arg.le,
                                          NrmAbsDotVec3(arg.n_light, <<F(arg.d[1]), F(arg.d[2])>>)),
                                     RMul(RMul(arg.light_pdf, arg.pdf_pos), arg.pdf_dir))
                   ELSE beta' = beta
                /\ IF ArcGetMut(strong) /\ ArcGetMut(strong + 1)
                   THEN /\ pc' = "walk"
                        /\ pdf_fwd' = arg.pdf_dir
                        /\ max_depth' = arg.max_depth - 1
                        /\ mode' = "Importance"
                        /\ density_info' = IF is_infinite_light
                                           THEN SomeFloat(arg.pdf_pos) ELSE NoFloat
                   ELSE /\ pc' = "panic"
                        /\ UNCHANGED <<pdf_fwd, max_depth, mode, density_info>>
                /\ UNCHANGED <<pdf_rev, bounces, events, ret>>
    /\ UNCHANGED <<op, arg>>

\* ------------------------------------------------------------- connect_bdpt
\* subpaths of the kind the generators and random_walk build
SeedRay == [o |-> Origin, d |-> <<1, 0>>]
LambertVertex ==
    CreateSurfaceInteraction(
        [Surface(<<3, 0>>, <<1, 0>>, SomeBsdf(Lambert)) EXCEPT !.wo = <<-1, 0>>],
        One, One, CameraSeed(SeedRay))
MirrorVertex ==
    [CreateSurfaceInteraction(
        [Surface(<<0, 4>>, <<0, 1>>, SomeBsdf(Mirror)) EXCEPT !.wo = <<-1, 0>>],
        One, One, CameraSeed(SeedRay)) EXCEPT !.delta = TRUE]
EscapeVertex == CreateLightInteraction(EndpointNewRay(SeedRay), One, One)
CameraPaths ==
    { <<CameraSeed(SeedRay)>>,
      <<CameraSeed(SeedRay), EscapeVertex>>,
      <<CameraSeed(SeedRay), LambertVertex>>,
      <<CameraSeed(SeedRay), MirrorVertex>>,
      <<CameraSeed(SeedRay), LambertVertex, EscapeVertex>>,
      <<CameraSeed(SeedRay), MirrorVertex, LambertVertex>> }
LightPaths ==
    { <<>>,
      <<LightSeed({"Area"}, SeedRay)>>,
      <<LightSeed({"DeltaDirection"}, SeedRay)>>,
      <<LightSeed({"Area"}, SeedRay), LambertVertex>>,
      <<LightSeed({"Infinite"}, SeedRay), MirrorVertex>> }

\* connect_bdpt: the two subpaths and a strategy (s, t) within them
InitConnect ==
    /\ op = "connect_bdpt"
    /\ pc = "call"
    /\ \E lv \in LightPaths, cv \in CameraPaths :
          \E s \in 0..Len(lv), t \in 1..Len(cv) :
             arg = [light_vertices |-> lv, camera_vertices |-> cv, s |-> s, t |-> t]
    /\ IdleWalk
    /\ draws = 0
    /\ ret = NoRet

\* line 618: a strategy that ends the camera subpath on an escape vertex
InvalidConnection(camera_vertices, s, t) ==
    t > 1 /\ s # 0 /\ At(camera_vertices, t - 1).vertex_type = "Light"

\* connect_bdpt with a fault: s = 0 returns the last camera vertex's beta
\* whatever its variant
ConnectLAnyEndpoint(light_vertices, camera_vertices, s, t) ==
    IF InvalidConnection(camera_vertices, s, t) THEN Zero
    ELSE IF s = 0 THEN At(camera_vertices, t - 1).beta
    ELSE Zero

\* connect_bdpt, lines 616-701: the contribution l it returns
ConnectL(light_vertices, camera_vertices, s, t) ==
    IF InvalidConnection(camera_vertices, s, t) THEN Zero
    ELSE IF s = 0 THEN Zero
    ELSE IF t = 1 THEN Zero
    ELSE IF s = 1 THEN Zero
    ELSE Zero

\* connect_bdpt with a fault: the light endpoint is sampled before the
\* validity pre-check and whatever t is
ConnectDrawsUnguarded(light_vertices, camera_vertices, s, t) ==
    IF s = 0 THEN 0
    ELSE IF IsConnectible(At(light_vertices, s - 1)) THEN 1 ELSE 0

\* connect_bdpt, lines 618-648: the values it draws from the sampler
ConnectDraws(light_vertices, camera_vertices, s, t) ==
    IF InvalidConnection(camera_vertices, s, t) THEN 0
    ELSE IF s = 0 THEN 0
    ELSE IF t = 1
         THEN IF IsConnectible(At(light_vertices, s - 1)) THEN 1 ELSE 0
    ELSE 0

\* connect_bdpt, lines 607-702
ConnectBdpt ==
    /\ op = "connect_bdpt"
    /\ pc = "call"
    /\ ret' = [NoRet EXCEPT !.l = ConnectL(arg.light_vertices, arg.camera_vertices,
                                           arg.s, arg.t)]
    /\ draws' = draws + ConnectDraws(arg.light_vertices, arg.camera_vertices,
                                     arg.s, arg.t)
    /\ pc' = "done"
    /\ UNCHANGED <<op, arg, walk_vars>>

\* ------------------------------------------------------ the Vertex predicates
Points == {Origin, <<3, 0>>, <<0, 4>>, <<3, 4>>}
Mixed == <<{"BsdfReflection", "BsdfSpecular"}, {"BsdfReflection", "BsdfDiffuse"}>>
Lights ==
    {NoLight} \cup
    {SomeLight(fl) : fl \in {{"Area"}, {"DeltaPosition"}, {"DeltaDirection"}, {"Infinite"}}}
\* the vertices Vertex::new builds from an endpoint, and those
\* create_surface_interaction builds from a surface
EndpointVertices ==
    { VertexNew(ty, [EndpointNew(p) EXCEPT !.n = n, !.light = li], One) :
        ty \in {"Camera", "Light", "Surface", "Medium"}, p \in Points,
        n \in {Origin, <<1, 0>>, <<0, 1>>}, li \in Lights }
SurfaceVertices ==
    { [VertexNew("Surface", NoEi, One) EXCEPT !.si = Surface(p, n, bsdf)] :
        p \in Points, n \in {<<1, 0>>, <<0, 1>>},
        bsdf \in {NoBsdf, SomeBsdf(Lambert), SomeBsdf(Mirror), SomeBsdf(Mixed)} }
Vertices == EndpointVertices \cup SurfaceVertices
\* the vertices convert_density is called on
SelfVertices ==
    { VertexNew("Camera", EndpointNew(p), One) : p \in Points } \cup
    { VertexNew("Medium", EndpointNew(<<3, 0>>), One),
      [VertexNew("Surface", NoEi, One) EXCEPT
          !.si = Surface(<<3, 4>>, <<1, 0>>, SomeBsdf(Lambert))] }

InitIsConnectible ==
    /\ op = "is_connectible"
    /\ pc = "call"
    /\ arg \in [self : Vertices]
    /\ IdleWalk
    /\ draws = 0
    /\ ret = NoRet

\* a call of Vertex::is_connectible
CallIsConnectible ==
    /\ op = "is_connectible"
    /\ pc = "call"
    /\ ret' = [NoRet EXCEPT !.b = IsConnectible(arg.self)]
    /\ pc' = "done"
    /\ UNCHANGED <<op, arg, walk_vars, draws>>

InitConvertDensity ==
    /\ op = "convert_density"
    /\ pc = "call"
    /\ arg \in [self : SelfVertices, pdf : Densities, next : Vertices]
    /\ IdleWalk
    /\ draws = 0
    /\ ret = NoRet

\* a call of Vertex::convert_density
CallConvertDensity ==
    /\ op = "convert_density"
    /\ pc = "call"
    /\ ret' = [NoRet EXCEPT !.f = ConvertDensity(arg.self, arg.pdf, arg.next)]
    /\ pc' = "done"
    /\ UNCHANGED <<op, arg, walk_vars, draws>>

Init ==
    \/ InitWalk
    \/ InitCamera
    \/ InitLight
    \/ InitConnect
    \/ InitIsConnectible
    \/ InitConvertDensity

Next ==
    \/ RandomWalk
    \/ WalkMiss
    \/ WalkHitIndexPanic
    \/ WalkHitBudget
    \/ WalkHitAbsorbed
    \/ WalkHitScatter
    \/ WalkHitNoBsdf
    \/ WalkReturn
    \/ GenerateCameraSubpath
    \/ GenerateLightSubpath
    \/ ConnectBdpt
    \/ CallIsConnectible
    \/ CallConvertDensity

Spec == Init /\ [][Next]_vars

\* random_walk alone, lines 479-605: the steps of one call
WalkNext ==
    \/ RandomWalk
    \/ WalkMiss
    \/ WalkHitIndexPanic
    \/ WalkHitBudget
    \/ WalkHitAbsorbed
    \/ WalkHitScatter
    \/ WalkHitNoBsdf
    \/ WalkReturn

\* a call that has started runs on: the body is sequential code, and the scene
\* and the BSDF answer each query
WalkSpec == InitWalk /\ [][WalkNext]_vars /\ WF_vars(WalkNext)

\* ==================================================================== claims
Last(q) == q[Len(q)]
InWalk == op = "random_walk"

\* C1: the value random_walk returns equals the number of vertices it appended
\* to the subpath (its length after the call is its length before plus the
\* returned count).
C1_ReturnIsAppended ==
    (InWalk /\ pc = "done") => Len(path) = Len(path0) + ret.n

\* C2: a Radiance walk with a budget of at least 1 whose first intersection
\* misses ends with exactly one vertex appended, a Light vertex, and returns 1;
\* a miss in an Importance walk ends the loop with nothing appended for it
\* (and the walk returns 0 with the subpath untouched when it is the first
\* intersection that misses).
C2_MissState ==
    (InWalk /\ max_depth >= 1 /\ events = <<"miss">>) =>
        /\ pc \in {"post", "done"}
        /\ IF mode = "Radiance"
           THEN /\ path = Append(path0, Last(path))
                /\ Last(path).vertex_type = "Light"
                /\ pc = "done" => ret.n = 1
           ELSE /\ path = path0
                /\ pc = "done" => ret.n = 0
C2_MissStep ==
    (InWalk /\ mode = "Importance" /\ pc = "loop" /\ events' = Append(events, "miss")) =>
        /\ path' = path
        /\ pc' = "post"
C2_EscapeVertex == []C2_MissState /\ [][C2_MissStep]_vars
C2_Witness ==
    /\ InWalk /\ pc = "done" /\ mode = "Radiance" /\ events = <<"miss">>
    /\ ret.n = 1 /\ Len(path) = 2 /\ path[2].vertex_type = "Light"

\* C3: generate_light_subpath returns length 0 and an empty subpath, without
\* starting a random walk and without a panic, whenever the sampled light's
\* positional density or directional density is zero or its emission is black.
C3_LightAbort ==
    (/\ op = "generate_light_subpath"
     /\ (arg.pdf_pos = Zero \/ arg.pdf_dir = Zero \/ arg.le = Zero)) =>
        /\ pc \in {"call", "done"}
        /\ events = <<>>
        /\ pc = "done" => (ret.n = 0 /\ ret.path = <<>> /\ path = <<>>)
C3_Witness ==
    /\ op = "generate_light_subpath" /\ pc = "done" /\ arg.max_depth >= 1
    /\ arg.pdf_pos # Zero /\ arg.pdf_dir # Zero /\ arg.le = Zero
    /\ ret.n = 0 /\ ret.path = <<>>

\* the state right after random_walk stored a vertex whose BSDF sample came
\* from a specular component
AfterSpecular == InWalk /\ pc = "loop" /\ events # <<>> /\ Last(events) = "specular"

\* C4, as stated: a vertex created from a specular sample has, right after its
\* creation in the walk, stored pdf_fwd = 0, stored pdf_rev = 0 and delta set.
C4_DeltaAllZero ==
    AfterSpecular =>
        /\ Last(path).pdf_fwd = Zero
        /\ Last(path).pdf_rev = Zero
        /\ Last(path).delta

\* C4, amended: a vertex created from a specular sample has, right after its
\* creation in the walk, delta set and stored pdf_rev = 0; the densities forced
\* to 0 are the walk's running pdf_fwd (for the next vertex) and pdf_rev (so
\* the pdf_rev patched into its predecessor is 0), not its own stored pdf_fwd.
C4_DeltaRunningZero ==
    AfterSpecular =>
        /\ Last(path).delta
        /\ Last(path).pdf_rev = Zero
        /\ pdf_fwd = Zero
        /\ pdf_rev = Zero
        /\ path[Len(path) - 1].pdf_rev = Zero
C4_Witness ==
    /\ AfterSpecular
    /\ Last(path).delta
    /\ Last(path).pdf_fwd # Zero
    /\ pdf_fwd = Zero

\* the flag sets of the non-specular component kinds
HasNonSpecular(bsdf) ==
    \E i \in DOMAIN bsdf.bxdfs : "BsdfSpecular" \notin bsdf.bxdfs[i]
HasDeltaDirectionLight(v) == v.ei.light.some /\ "DeltaDirection" \in v.ei.light.flags

\* C5, as stated: is_connectible is true for every Camera and Medium vertex,
\* for a Light vertex true unless its light is delta-direction (so true for a
\* Light vertex without a light), for a Surface vertex true iff its scattering
\* function has a non-specular component.
C5_TableAsStated ==
    (op = "is_connectible" /\ pc = "done") =>
        ret.b = CASE arg.self.vertex_type \in {"Camera", "Medium"} -> TRUE
                  [] arg.self.vertex_type = "Light" -> ~HasDeltaDirectionLight(arg.self)
                  [] arg.self.vertex_type = "Surface" ->
                        (arg.self.si.some /\ arg.self.si.bsdf.some
                            /\ HasNonSpecular(arg.self.si.bsdf))

\* C5, amended: as stated, except that a Light vertex is connectible iff it
\* carries a light and that light is not delta-direction (a Light vertex
\* without a light, the escape vertex, is not connectible).
C5_Table ==
    (op = "is_connectible" /\ pc = "done") =>
        ret.b = CASE arg.self.vertex_type \in {"Camera", "Medium"} -> TRUE
                  [] arg.self.vertex_type = "Light" ->
                        (arg.self.ei.light.some /\ ~HasDeltaDirectionLight(arg.self))
                  [] arg.self.vertex_type = "Surface" ->
                        (arg.self.si.some /\ arg.self.si.bsdf.some
                            /\ HasNonSpecular(arg.self.si.bsdf))
C5_Witness ==
    /\ op = "is_connectible" /\ pc = "done"
    /\ arg.self.vertex_type = "Light" /\ ~arg.self.ei.light.some
    /\ ret.b = FALSE

\* next is an infinite light: a Light vertex whose light has the infinite or
\* the delta-direction flag
InfiniteNext(n) ==
    /\ n.vertex_type = "Light"
    /\ n.ei.light.some
    /\ n.ei.light.flags \cap {"Infinite", "DeltaDirection"} # {}
\* the distance between two points of the scene
Distance(a, b) == CHOOSE d \in 0..5 : d * d = LengthSquared(VSub(a, b))

\* C6: convert_density(pdf, next) is pdf when next is an infinite light;
\* otherwise 0 when the two positions coincide; otherwise pdf / distance^2,
\* times |cos(next's geometric normal, connecting direction)| exactly when
\* next's geometric normal is non-zero.
C6_ConvertDensity ==
    (op = "convert_density" /\ pc = "done") =>
        LET v == arg.self
            n == arg.next
            w == VSub(P(n), P(v))
            d == Distance(P(n), P(v))
            dot == Abs(Ng(n)[1] * w[1] + Ng(n)[2] * w[2])
        IN  ret.f = IF InfiniteNext(n) THEN arg.pdf
                    ELSE IF P(v) = P(n) THEN Zero
                    ELSE IF Ng(n) # Origin
                         THEN Rat(arg.pdf[1] * dot, arg.pdf[2] * d * d * d)
                         ELSE Rat(arg.pdf[1], arg.pdf[2] * d * d)
C6_Witness ==
    /\ op = "convert_density" /\ pc = "done"
    /\ ~InfiniteNext(arg.next)
    /\ Ng(arg.next) # Origin
    /\ arg.pdf = One
    /\ ret.f = <<3, 125>>

\* C7: a BSDF sample with a black weight or a zero density ends random_walk
\* with a normal return of the bounce count, never a panic, with or without
\* density_info.
C7_AbsorbedReturns ==
    (InWalk /\ events # <<>> /\ Last(events) = "absorbed") =>
        /\ pc \in {"post", "done"}
        /\ pc = "done" => ret.n = bounces

\* C8: for max_depth >= 1 generate_camera_subpath completes and returns the
\* number of vertices of the subpath it returns, 1 for the Camera vertex at
\* index 0 plus those the walk appended; for max_depth = 0 it returns 0 and an
\* empty subpath.
C8_CameraLength ==
    (op = "generate_camera_subpath") =>
        /\ pc # "panic"
        /\ pc = "done" =>
              IF arg.max_depth = 0
              THEN ret.n = 0 /\ ret.path = <<>>
              ELSE /\ ret.n = Len(ret.path)
                   /\ ret.n >= 1
                   /\ ret.path[1].vertex_type = "Camera"

\* C9: connect_bdpt with s = 0 returns a zero contribution unless the camera
\* subpath's t-th vertex is a Light vertex.
C9_NoEmitterNoLight ==
    (/\ op = "connect_bdpt" /\ pc = "done" /\ arg.s = 0
     /\ At(arg.camera_vertices, arg.t - 1).vertex_type # "Light") =>
        ret.l = Zero
C9_Witness ==
    /\ op = "connect_bdpt" /\ pc = "done" /\ arg.s = 0 /\ arg.t = 2
    /\ At(arg.camera_vertices, arg.t - 1).vertex_type = "Surface"
    /\ At(arg.camera_vertices, arg.t - 1).beta # Zero
    /\ ret.l = Zero

\* C10: a hit of a surface without a BSDF lets the walk go on along the same
\* direction with the bounce counter and the subpath as they were before.
C10_NoBsdfStep ==
    (InWalk /\ pc = "loop" /\ events' = Append(events, "no_bsdf")) =>
        /\ pc' = "loop"
        /\ ray'.d = ray.d
        /\ path' = path
        /\ bounces' = bounces
C10_NoBsdfFree == [][C10_NoBsdfStep]_vars

\* C11: when generate_light_subpath does not abort, vertex 0 of the light
\* subpath is a Light vertex whose pdf_fwd is pdf_pos * light_pdf.
C11_LightEndpointDensity ==
    (/\ op = "generate_light_subpath" /\ pc # "call" /\ arg.max_depth >= 1
     /\ arg.pdf_pos # Zero /\ arg.pdf_dir # Zero /\ arg.le # Zero) =>
        /\ path # <<>>
        /\ path[1].vertex_type = "Light"
        /\ path[1].pdf_fwd = RMul(arg.pdf_pos, arg.light_pdf)

\* C12: during random_walk the subpath is append-only; a step of the loop
\* leaves every stored vertex as it was, except pdf_rev of the vertex right
\* before the one being created, which becomes the new vertex's
\* convert_density of the reverse density toward it; the return changes at
\* most pdf_fwd of vertex 1 (the infinite-light correction).
C12_LoopStep ==
    (InWalk /\ pc = "loop" /\ events' # events) =>
        /\ Len(path') \in {Len(path), Len(path) + 1}
        /\ \A i \in 1..Len(path) :
              IF i = Len(path) /\ Len(path') = Len(path) + 1
                  /\ Last(events') \in {"scatter", "specular"}
              THEN /\ path'[i] = [path[i] EXCEPT !.pdf_rev = path'[i].pdf_rev]
                   /\ path'[i].pdf_rev = ConvertDensity(Last(path'), pdf_rev', path[i])
              ELSE path'[i] = path[i]
C12_ReturnStep ==
    (InWalk /\ pc = "post") =>
        /\ Len(path') = Len(path)
        /\ \A i \in 1..Len(path) :
              IF i = 2 THEN path'[i] = [path[i] EXCEPT !.pdf_fwd = path'[i].pdf_fwd]
              ELSE path'[i] = path[i]
C12_AppendOnly == [][C12_LoopStep /\ C12_ReturnStep]_vars
C12_Witness ==
    /\ InWalk /\ pc = "loop" /\ events = <<"scatter">>
    /\ Len(path) = 2
    /\ path[1].pdf_rev # Zero
    /\ path[1] = [path0[1] EXCEPT !.pdf_rev = path[1].pdf_rev]

\* the strategy (s, t) connects to a camera subpath ending in an escape vertex
C13_Case ==
    /\ op = "connect_bdpt"
    /\ arg.t > 1
    /\ arg.s # 0
    /\ At(arg.camera_vertices, arg.t - 1).vertex_type = "Light"

\* C13: connect_bdpt returns a zero contribution and draws nothing from the
\* sampler for every (s, t) with t > 1 and s # 0 whose camera_vertices[t - 1]
\* is a Light (escape) vertex.
C13_InvalidConnection ==
    (C13_Case /\ pc = "done") => (ret.l = Zero /\ draws = 0)
C13_Witness ==
    /\ C13_Case /\ pc = "done"
    /\ arg.s = 1
    /\ IsConnectible(At(arg.light_vertices, 0))
    /\ ret.l = Zero /\ draws = 0

\* the scene-intersection queries made so far: one per logged step
Queries == Len(events)

C14_Budget ==
    InWalk =>
        /\ Queries <= max_depth
        /\ bounces <= max_depth
        /\ (pc = "done" => ret.n = bounces)
        /\ (max_depth = 0 => Queries = 0 /\ bounces = 0)
C14_Progress ==
    (InWalk /\ pc = "loop" /\ events' # events) =>
        /\ Queries' = Queries + 1
        /\ pc' # "loop" \/ bounces' = bounces + 1

\* C14: random_walk always terminates within its budget: every iteration of
\* the loop leaves the loop or increases bounces, the walk makes at most
\* max_depth intersection queries, the count it returns never exceeds
\* max_depth, and with max_depth = 0 it returns 0 at once.
C14_TerminatesInBudget ==
    /\ []C14_Budget
    /\ [][C14_Progress]_vars
    /\ <>(InWalk => pc \in {"done", "panic"})
C14_Witness ==
    /\ InWalk /\ pc = "done"
    /\ max_depth >= 2
    /\ Queries = max_depth
    /\ ret.n = max_depth

====
